---- MODULE Spec2Model ----
(***************************************************************************)
(* Model of src/src/filter.py: the dataset filter drivers (vision_filter,  *)
(* text_filter) and the confidence classifiers (vision_classify,           *)
(* text_classify).                                                         *)
(*                                                                         *)
(* Numbers: logits and the required logit difference are fixed-point, in   *)
(* thousandths (2197 stands for ln 9 = 2.197...).  A threshold is given in *)
(* tenths (9 stands for 0.9).  Python's None is the value None below.      *)
(***************************************************************************)
EXTENDS Integers, Sequences, FiniteSets, TLC

\* ---------------------------------------------------------------- bounds
MaxRows == 3
MaxSteps == 2
PromptLen == 2

\* ------------------------------------------------------- input domains
None == -1

Modes == {"vision", "text"}

\* thresholds in tenths: 0.5 and 0.9 lie in (0,1); 0, 1.0 and 1.2 do not
Thresholds == {0, 5, 9, 10, 12}

SaveEveryChoices == {None, 0, 1, 2}

MaxStepsChoices == {None} \cup (0..MaxSteps)

TopKChoices == {1, 2}

\* vocabulary ids: 0 and 1 are the ids of "0" and "1", 2 and 3 other tokens
Vocab == 0..3

LogitVals == {0, 2197}

Logits == [Vocab -> LogitVals]

\* ------------------------------------------------------------ helpers
\* Python truthiness of an `int or None` option
Truthy(x) == x # None /\ x # 0

Last(s) == s[Len(s)]

\* tokenizer.convert_tokens_to_ids(tokenizer.tokenize("1")[0]) and ("0")
true_token_id == 1
false_token_id == 0

\* natural logarithm of t/(10-t) for t in 1..9, in thousandths
LnOdds(t) ==
    CASE t = 1 -> -2197 [] t = 2 -> -1386 [] t = 3 -> -847 [] t = 4 -> -405
      [] t = 5 -> 0
      [] t = 6 -> 405 [] t = 7 -> 847 [] t = 8 -> 1386 [] t = 9 -> 2197

\* threshold / (1 - threshold) raises ZeroDivisionError when threshold = 1
DivisionRaises(t) == t = 10

\* torch.log(torch.tensor(threshold / (1 - threshold))): log of a negative
\* number is nan, log of 0 is -inf
InverseSigmoid(t) ==
    IF t = 0 THEN [kind |-> "neginf", val |-> 0]
    ELSE IF t < 0 \/ t > 10 THEN [kind |-> "nan", val |-> 0]
    ELSE [kind |-> "num", val |-> LnOdds(t)]

NoReq == [kind |-> "unset", val |-> 0]

Predict_Strict(difference, req) ==
    CASE req.kind = "num" -> difference > req.val
      [] req.kind = "neginf" -> TRUE
      [] OTHER -> FALSE

\* difference >= req_logit_diff on floats: nothing is >= nan, all is >= -inf
Predict(difference, req) ==
    CASE req.kind = "num" -> difference >= req.val
      [] req.kind = "neginf" -> TRUE
      [] OTHER -> FALSE

\* logits[:, [id_1, id_0]] and the difference of the two
Difference(lg, id_1, id_0) == lg[id_1] - lg[id_0]

\* torch.topk(logits, k).indices[0].tolist(): the ids of the k largest
\* logits, largest first; the order among equal logits is not specified
TopKs(lg, k) ==
    { s \in [1..k -> Vocab] :
        /\ \A a, b \in 1..k : a < b => (s[a] # s[b] /\ lg[s[a]] >= lg[s[b]])
        /\ \A v \in Vocab : (\A a \in 1..k : s[a] # v) => lg[v] <= lg[s[k]] }

InTopK(id, ids) == \E a \in DOMAIN ids : ids[a] = id

NotReady_Either(ids, id_1, id_0) == ~InTopK(id_1, ids) \/ ~InTopK(id_0, ids)

\* `id_1 not in topk_ids and id_0 not in topk_ids`
NotReady(ids, id_1, id_0) == ~InTopK(id_1, ids) /\ ~InTopK(id_0, ids)

Steps_NoneIsZero(ms) == IF ms = None THEN 0 ELSE ms

Steps_ZeroIsOne(ms) == IF ms = None \/ ms = 0 THEN 1 ELSE ms

\* steps = 1 if max_steps is None else max_steps
Steps(ms) == IF ms = None THEN 1 ELSE ms

KeptRows_All(res) == [j \in 1..Len(res) |-> j]

\* metadata.iloc[:len(results)][results]: the positions of the processed
\* rows whose result is true, in dataset order
RECURSIVE KeptRows(_)
KeptRows(res) ==
    IF res = <<>> THEN <<>>
    ELSE LET front == KeptRows(SubSeq(res, 1, Len(res) - 1))
         IN  IF Last(res) THEN Append(front, Len(res)) ELSE front

CrossUnit == <<1, 1, 0, 0>>

\* processor(image, text, return_tensors="pt"): a batch with three aligned
\* sequences
VisionInput ==
    [kind |-> "batch",
     input_ids |-> [j \in 1..PromptLen |-> 2],
     attention_mask |-> [j \in 1..PromptLen |-> 1],
     cross_attention_mask |-> [j \in 1..PromptLen |-> CrossUnit]]

\* tokenizer.apply_chat_template(..., return_tensors="pt"): a bare tensor
\* of token ids
TextInput == [kind |-> "tensor", input_ids |-> [j \in 1..PromptLen |-> 2]]

NoInput == [kind |-> "none", input_ids |-> <<>>]

NoLogits == [v \in Vocab |-> 0]

AppendToken_NoCross(inp, next_token_id) ==
    [inp EXCEPT !.input_ids = Append(@, next_token_id),
                !.attention_mask = Append(@, 1)]

AppendToken_MasksOnly(inp, next_token_id) ==
    [inp EXCEPT !.attention_mask = Append(@, 1),
                !.cross_attention_mask = Append(@, CrossUnit)]

\* the three torch.cat calls of a not-ready step of vision_classify
AppendToken(inp, next_token_id) ==
    [inp EXCEPT !.input_ids = Append(@, next_token_id),
                !.attention_mask = Append(@, 1),
                !.cross_attention_mask = Append(@, CrossUnit)]

RecordCorrupted_Dropped(res, keep) == res

RecordCorrupted_Discard(res, keep) == Append(res, FALSE)

\* results.append(keep_corrupted) of the two except branches
RecordCorrupted(res, keep) == Append(res, keep)

\* results.append(<classifier's return value>)
RecordDecision(res, prediction) == Append(res, prediction)

LimitResult_False == FALSE

\* the value returned after the loop ran out of steps
LimitResult == TRUE

Caught_All(o) == o # "ok"

\* except FileNotFoundError / except UnidentifiedImageError
Caught(o) == o \in {"missing", "corrupted"}

CountCorrupted_Stuck(n) == n

\* missing_or_corrupted += 1
CountCorrupted(n) == n + 1

\* Image.open(...) / processor(...) outcomes for one row
InputOutcomes(m) ==
    IF m = "vision" THEN {"ok", "missing", "corrupted", "error"}
    ELSE {"ok", "error"}

VARIABLES
    mode,               \* which driver runs: vision_filter or text_filter
    threshold, save_every, max_steps, topk, keep_corrupted, nrows,
    pc,                 \* position of the run
    error,              \* the exception that ended the run, if any
    req_logit_diff,
    results, since_last_save, missing_or_corrupted,
    row,                \* number of rows the for loop has taken so far
    image,              \* how the current row's input resolved
    file,               \* content of output_path: kept row positions
    written,            \* output_path has been written by this run
    out,                \* what the last step printed
    input, step, logits,
    passes,             \* forward passes of the current classifier call
    classify_calls,     \* classifier invocations of the run
    decided,            \* row position -> decision recorded for that row
    covered,            \* number of results the last write of the file saw
    writes,             \* number of times the file has been written
    failed              \* row positions whose image was missing or corrupted

vars == <<mode, threshold, save_every, max_steps, topk, keep_corrupted, nrows,
          pc, error, req_logit_diff, results, since_last_save,
          missing_or_corrupted, row, image, file, written, out, input, step,
          logits, passes, classify_calls, decided, covered, writes, failed>>

params == <<mode, threshold, save_every, max_steps, topk, keep_corrupted, nrows>>

Init ==
    /\ mode \in Modes
    /\ threshold \in Thresholds
    /\ save_every \in SaveEveryChoices
    /\ max_steps \in MaxStepsChoices
    /\ topk \in TopKChoices
    /\ keep_corrupted \in (IF mode = "vision" THEN BOOLEAN ELSE {FALSE})
    /\ nrows \in 0..MaxRows
    /\ pc = "start"
    /\ error = "none"
    /\ req_logit_diff = NoReq
    /\ results = <<>>
    /\ since_last_save = 0
    /\ missing_or_corrupted = 0
    /\ row = 0
    /\ image = "none"
    /\ file = <<>>
    /\ written = FALSE
    /\ out = <<>>
    /\ input = NoInput
    /\ step = 0
    /\ logits = NoLogits
    /\ passes = 0
    /\ classify_calls = 0
    /\ decided = <<>>
    /\ covered = 0
    /\ writes = 0
    /\ failed = {}

\* lines 54-60 / 100-105: the code before the for loop
Setup ==
    /\ pc = "start"
    /\ IF DivisionRaises(threshold)
       THEN /\ pc' = "raised"
            /\ error' = "ZeroDivisionError"
            /\ UNCHANGED req_logit_diff
       ELSE /\ pc' = "loop"
            /\ req_logit_diff' = InverseSigmoid(threshold)
            /\ UNCHANGED error
    /\ UNCHANGED <<params, results, since_last_save, missing_or_corrupted, row,
                   image, file, written, out, input, step, logits, passes,
                   classify_calls, decided>>
    /\ UNCHANGED <<covered, writes, failed>>

SaveDue_Late == Truthy(save_every) /\ since_last_save > save_every

\* `if save_every and since_last_save >= save_every`
SaveDue == Truthy(save_every) /\ since_last_save >= save_every

\* lines 61-88 / 106-118 up to the classifier call: take the next row, do the
\* safety save, build the input
BeginRow ==
    /\ pc = "loop"
    /\ row < nrows
    /\ row' = row + 1
    /\ IF SaveDue
       THEN /\ file' = KeptRows(results)
            /\ written' = TRUE
            /\ covered' = Len(results)
            /\ writes' = writes + 1
            /\ since_last_save' = 1
       ELSE /\ since_last_save' = since_last_save + 1
            /\ UNCHANGED <<file, written, covered, writes>>
    /\ \E o \in InputOutcomes(mode) :
        /\ image' = o
        /\ CASE o = "ok" ->
                  /\ input' = (IF mode = "vision" THEN VisionInput ELSE TextInput)
                  /\ step' = 0
                  /\ passes' = 0
                  /\ classify_calls' = classify_calls + 1
                  /\ pc' = "classify"
                  /\ out' = (IF SaveDue THEN <<"saved">> ELSE <<>>)
                  /\ UNCHANGED <<error, results, missing_or_corrupted, failed,
                                 decided>>
             [] Caught(o) ->
                  /\ missing_or_corrupted' = CountCorrupted(missing_or_corrupted)
                  /\ failed' = failed \cup {row'}
                  /\ results' = RecordCorrupted(results, keep_corrupted)
                  /\ decided' = decided @@ (row' :> keep_corrupted)
                  /\ out' = (IF SaveDue THEN <<"saved">> ELSE <<>>) \o <<o>>
                  /\ pc' = "loop"
                  /\ UNCHANGED <<error, input, step, passes, classify_calls>>
             [] OTHER ->
                  /\ pc' = "raised"
                  /\ error' = "ProviderError"
                  /\ out' = (IF SaveDue THEN <<"saved">> ELSE <<>>)
                  /\ UNCHANGED <<results, missing_or_corrupted, failed, decided,
                                 input, step, passes, classify_calls>>
    /\ UNCHANGED <<params, req_logit_diff, logits>>

\* lines 130-133 / 170-173: one forward pass of the model
ForwardPass ==
    /\ pc = "classify"
    /\ step < Steps(max_steps)
    /\ \E lg \in Logits : logits' = lg
    /\ passes' = passes + 1
    /\ pc' = "scored"
    /\ out' = <<>>
    /\ UNCHANGED <<params, error, req_logit_diff, results, since_last_save,
                   missing_or_corrupted, row, image, file, written, input, step,
                   classify_calls, decided>>
    /\ UNCHANGED <<covered, writes, failed>>

\* the model call raises (for instance out of memory)
ForwardFail ==
    /\ pc = "classify"
    /\ step < Steps(max_steps)
    /\ pc' = "raised"
    /\ error' = "ProviderError"
    /\ out' = <<>>
    /\ UNCHANGED <<params, req_logit_diff, results, since_last_save,
                   missing_or_corrupted, row, image, file, written, input, step,
                   logits, passes, classify_calls, decided>>
    /\ UNCHANGED <<covered, writes, failed>>

\* lines 152-157 / 189-194 and the caller's results.append
Decide ==
    LET prediction == Predict(Difference(logits, true_token_id, false_token_id),
                              req_logit_diff)
    IN  /\ results' = RecordDecision(results, prediction)
        /\ decided' = decided @@ (row :> prediction)
        /\ pc' = "loop"
        /\ UNCHANGED <<error, input, step>>

\* lines 139-150 (vision): append the most likely token, next iteration;
\* lines 179-187 (text): input is a tensor, input["input_ids"] raises
Extend(topk_ids) ==
    IF input.kind = "batch"
    THEN /\ input' = AppendToken(input, topk_ids[1])
         /\ step' = step + 1
         /\ pc' = "classify"
         /\ UNCHANGED <<error, results, decided>>
    ELSE /\ pc' = "raised"
         /\ error' = "IndexError"
         /\ UNCHANGED <<input, step, results, decided>>

\* lines 136-157 / 176-194: the rest of one loop iteration
Score ==
    /\ pc = "scored"
    /\ IF Truthy(max_steps)
       THEN \E topk_ids \in TopKs(logits, topk) :
                IF NotReady(topk_ids, true_token_id, false_token_id)
                THEN Extend(topk_ids)
                ELSE Decide
       ELSE Decide
    /\ logits' = NoLogits
    /\ out' = <<>>
    /\ UNCHANGED <<params, req_logit_diff, since_last_save,
                   missing_or_corrupted, row, image, file, written, passes,
                   classify_calls>>
    /\ UNCHANGED <<covered, writes, failed>>

\* lines 159-160 / 196-197: the loop ran out of steps
Exhausted ==
    /\ pc = "classify"
    /\ step >= Steps(max_steps)
    /\ out' = <<"limit">>
    /\ results' = RecordDecision(results, LimitResult)
    /\ decided' = decided @@ (row :> LimitResult)
    /\ pc' = "loop"
    /\ UNCHANGED <<params, error, req_logit_diff, since_last_save,
                   missing_or_corrupted, row, image, file, written, input, step,
                   logits, passes, classify_calls>>
    /\ UNCHANGED <<covered, writes, failed>>

\* line 90 / 120: the for loop is over
Return ==
    /\ pc = "loop"
    /\ row = nrows
    /\ pc' = "done"
    /\ out' = <<>>
    /\ UNCHANGED <<params, error, req_logit_diff, results, since_last_save,
                   missing_or_corrupted, row, image, file, written, input, step,
                   logits, passes, classify_calls, decided>>
    /\ UNCHANGED <<covered, writes, failed>>

Next ==
    \/ Setup
    \/ BeginRow
    \/ ForwardPass
    \/ ForwardFail
    \/ Score
    \/ Exhausted
    \/ Return

Spec == Init /\ [][Next]_vars

\* ------------------------------------------------------------- claims
\* the ids of the two answer tokens
Targets == {true_token_id, false_token_id}

\* some / no target id is among the top-k ids, however equal logits are ordered
SurelyReady(lg) == \A ids \in TopKs(lg, topk) : \E a \in 1..topk : ids[a] \in Targets
SurelyNotReady(lg) == \A ids \in TopKs(lg, topk) : \A a \in 1..topk : ids[a] \notin Targets

\* a classifier call returns to the driver in this step
CallReturns == pc \in {"classify", "scored"} /\ pc' = "loop"

\* C1: when a run of vision_filter or text_filter returns, results holds one
\* boolean per dataset row and element i is the decision recorded for row i.
C1_ResultsAligned ==
    pc = "done" =>
        /\ Len(results) = nrows
        /\ DOMAIN decided = 1..nrows
        /\ \A j \in 1..nrows : results[j] = decided[j]

C1_Witness ==
    /\ pc = "done"
    /\ mode = "vision"
    /\ nrows = 3
    /\ missing_or_corrupted = 1
    /\ classify_calls = 2
    /\ results = <<TRUE, FALSE, TRUE>>

C3_Original ==
    (/\ threshold \in 1..9
     /\ Truthy(save_every)
     /\ nrows >= save_every
     /\ Len(results) = save_every
     /\ (row > save_every \/ pc = "done"))
    => (written /\ file = KeptRows(SubSeq(results, 1, save_every)))

\* C3 amended: the checkpoint is written only when the driver begins row
\* k+1: nothing is written before, and from then until row 2k+1 begins the
\* file holds exactly the rows among the first k whose result is true.
C3_CheckpointAfterK ==
    Truthy(save_every) =>
        /\ row <= save_every => ~written
        /\ (row > save_every /\ row <= 2 * save_every) =>
               (written /\ file = KeptRows(SubSeq(results, 1, save_every)))

C3_Witness ==
    /\ save_every = 2
    /\ row = 3
    /\ Len(results) = 3
    /\ ~results[1] /\ results[2] /\ results[3]
    /\ written
    /\ file = <<2>>

\* C4: with positive max_steps and topk, when the first forward pass has a
\* target id in its top-k the call returns after that one pass and the
\* encoded input is not extended.
C4_ReadyFirstPass ==
    [][(pc = "scored" /\ Truthy(max_steps) /\ passes = 1 /\ SurelyReady(logits)) =>
            /\ pc' = "loop"
            /\ Len(results') = Len(results) + 1
            /\ passes' = 1
            /\ input' = input]_vars

C4_Witness ==
    /\ pc = "loop"
    /\ mode = "text"
    /\ image = "ok"
    /\ max_steps = 2
    /\ passes = 1
    /\ Len(results) = row
    /\ input = TextInput

C6_Original ==
    [][(CallReturns /\ threshold \in 1..9 /\ Truthy(max_steps)
            /\ step = max_steps) =>
            Len(input'.input_ids) = PromptLen + max_steps - 1]_vars

\* C6 amended: such a call of vision_classify returns with the token
\* sequence grown by exactly max_steps (every not-ready pass appends, the
\* last one too); text_classify raises at its first not-ready pass and
\* leaves the token sequence as it was.
C6_GrowsByMaxSteps ==
    [][/\ (CallReturns /\ Truthy(max_steps) /\ step = max_steps) =>
            /\ mode = "vision"
            /\ passes = max_steps
            /\ Len(input'.input_ids) = PromptLen + max_steps
       /\ (mode = "text" /\ pc = "scored" /\ Truthy(max_steps)
                /\ SurelyNotReady(logits)) =>
            (pc' = "raised" /\ error' = "IndexError" /\ input' = input
                /\ results' = results)]_vars

C6_Witness ==
    /\ pc = "loop"
    /\ mode = "vision"
    /\ max_steps = 2
    /\ step = 2
    /\ out = <<"limit">>
    /\ Len(input.input_ids) = PromptLen + 2

\* C7 (docstrings of vision_classify and text_classify): a call that
\* reaches max_steps without a clear answer returns FALSE.
C7_DocstringLimitFalse ==
    [][(CallReturns /\ threshold \in 1..9 /\ Truthy(max_steps)
            /\ step = max_steps) =>
            results' = Append(results, FALSE)]_vars

\* C8: a call that reaches the decision step returns
\* logit(yes) - logit(no) >= ln(threshold / (1 - threshold)) for the logits
\* of that forward pass: equality keeps, anything smaller discards.
C8_DecisionRule ==
    [][(pc = "scored" /\ pc' = "loop" /\ threshold \in 1..9) =>
            LET d == logits[true_token_id] - logits[false_token_id]
            IN  /\ Len(results') = Len(results) + 1
                /\ d = LnOdds(threshold) => Last(results')
                /\ d < LnOdds(threshold) => ~Last(results')
                /\ d > LnOdds(threshold) => Last(results')]_vars

\* with threshold 0.9 the only logits that keep have a difference equal to
\* the required 2197
C8_Witness ==
    /\ pc = "loop"
    /\ threshold = 9
    /\ image = "ok"
    /\ out = <<>>
    /\ Len(results) = row
    /\ Last(results)

\* C9: in vision_classify the token sequence, the attention mask and the
\* cross-attention mask have the same length at the start and the end of
\* every decoding step, and a not-ready step grows each by exactly one.
C9_MasksAligned ==
    /\ [](input.kind = "batch" =>
            /\ Len(input.attention_mask) = Len(input.input_ids)
            /\ Len(input.cross_attention_mask) = Len(input.input_ids))
    /\ [][(pc = "scored" /\ pc' = "classify") =>
            /\ Len(input'.input_ids) = Len(input.input_ids) + 1
            /\ Len(input'.attention_mask) = Len(input.attention_mask) + 1
            /\ Len(input'.cross_attention_mask) =
                   Len(input.cross_attention_mask) + 1]_vars

C9_Witness ==
    /\ pc = "classify"
    /\ input.kind = "batch"
    /\ step = 2
    /\ Len(input.input_ids) = PromptLen + 2
    /\ Len(input.attention_mask) = PromptLen + 2
    /\ Len(input.cross_attention_mask) = PromptLen + 2

\* C10: a run started with a threshold outside (0,1) aborts before any
\* classification: no classifier call, no accumulated result.
C10_InvalidThresholdAborts ==
    threshold \notin 1..9 =>
        /\ classify_calls = 0
        /\ results = <<>>

\* C11: with a checkpoint interval k >= 1, the decisions accumulated since
\* the last write of the file (all of them when nothing was written yet)
\* never number more than k.
C11_AtMostKUnsaved ==
    (Truthy(save_every) /\ save_every >= 1) =>
        /\ covered <= Len(results)
        /\ Len(results) - covered <= save_every
        /\ (~written => covered = 0)

C11_Witness ==
    /\ save_every = 2
    /\ nrows = 3
    /\ pc = "loop"
    /\ row = 2
    /\ Len(results) = 2
    /\ ~written

\* C12: every write of the checkpoint file leaves in it exactly the
\* positions of the processed rows whose result is true, each once and in
\* dataset order, whatever the file held before; rows skipped as missing
\* or corrupted count as processed.
C12_WriteIsKeptProcessedRows ==
    [][writes' # writes =>
            /\ writes' = writes + 1
            /\ \A j \in 1..Len(file') : file'[j] \in 1..Len(results)
            /\ \A j \in 1..Len(file') : results[file'[j]]
            /\ \A a, b \in 1..Len(file') : a < b => file'[a] < file'[b]
            /\ \A r \in 1..Len(results) :
                   results[r] => \E j \in 1..Len(file') : file'[j] = r]_vars

C12_Witness ==
    /\ mode = "vision"
    /\ writes = 2
    /\ row = 3
    /\ failed = {2}
    /\ SubSeq(results, 1, 2) = <<TRUE, FALSE>>
    /\ file = <<1>>

\* C13: with interval k >= 1 the file is written at the start of row i
\* (0-based) exactly when i > 0 and i is a multiple of k, whatever the rows
\* before were; the since-last-save counter restarts at that write; with
\* the interval None or 0 the file is never written.
C13_WriteEveryK ==
    /\ [][row' = row + 1 =>
            /\ (writes' = writes + 1) <=>
                   (Truthy(save_every) /\ row > 0 /\ row % save_every = 0)
            /\ (writes' = writes + 1) \/ (writes' = writes)
            /\ (writes' = writes + 1) => since_last_save' = 1]_vars
    /\ [][row' = row => writes' = writes]_vars
    /\ [](~Truthy(save_every) => (writes = 0 /\ ~written))

C13_Witness ==
    /\ save_every = 2
    /\ row = 3
    /\ writes = 1
    /\ since_last_save = 1
    /\ failed = {1}
    /\ covered = 2

\* C14: with max_steps None a classifier call does exactly one forward
\* pass, decides on it whether or not a target id is in the top-k, leaves
\* the encoded input as it was and never ends by the attempt limit.
C14_NoBoundOneAttempt ==
    [][/\ (max_steps = None /\ pc = "classify") =>
            (passes = 0 /\ pc' \in {"scored", "raised"} /\ results' = results)
       /\ (max_steps = None /\ pc = "scored") =>
            /\ passes = 1
            /\ pc' = "loop"
            /\ input' = input
            /\ out' # <<"limit">>
            /\ Len(results') = Len(results) + 1
            /\ threshold \in 1..9 =>
                   (Last(results') <=>
                        logits[true_token_id] - logits[false_token_id]
                            >= LnOdds(threshold))]_vars

\* with threshold 0.5 a kept row has logit(yes) >= logit(no)
C14_Witness ==
    /\ max_steps = None
    /\ pc = "loop"
    /\ image = "ok"
    /\ mode = "vision"
    /\ threshold = 5
    /\ passes = 1
    /\ input = VisionInput
    /\ Len(results) = row
    /\ Last(results)

\* C15: in text mode, with the step bound on, a pass without a target id
\* in its top-k appends the highest-logit id to the token sequence and goes
\* to the next iteration, raising nothing and deciding nothing.
C15_TextExtends ==
    [][(mode = "text" /\ pc = "scored" /\ Truthy(max_steps)
            /\ SurelyNotReady(logits)) =>
            /\ pc' = "classify"
            /\ error' = "none"
            /\ Len(input'.input_ids) = Len(input.input_ids) + 1
            /\ results' = results]_vars

\* the ids that may come first in the top-k: those with the largest logit
Highest(lg) == { v \in Vocab : \A w \in Vocab : lg[w] <= lg[v] }

\* C16: a classifier call with positive max_steps does at most max_steps
\* forward passes; a pass either decides (the call returns a boolean, and
\* it does so when a target id is in the top-k) or appends exactly one
\* token, the highest-logit id, and goes on; after the last pass the call
\* returns a boolean.
C16_CallTerminates ==
    /\ []((pc \in {"classify", "scored"} /\ Truthy(max_steps)) =>
            passes <= max_steps)
    /\ [][/\ (pc = "scored" /\ Truthy(max_steps)) =>
               \/ /\ pc' = "loop"
                  /\ Len(results') = Len(results) + 1
                  /\ input' = input
                  /\ ~SurelyNotReady(logits)
               \/ /\ pc' = "classify"
                  /\ results' = results
                  /\ ~SurelyReady(logits)
                  /\ \E v \in Highest(logits) :
                         input'.input_ids = Append(input.input_ids, v)
          /\ (pc = "classify" /\ Truthy(max_steps) /\ passes = max_steps) =>
               (pc' = "loop" /\ Len(results') = Len(results) + 1)]_vars

\* C17: in vision_filter the missing/corrupted counter always equals the
\* number of processed rows whose image was missing or corrupted, never
\* exceeds the number of results, and a classifier call that ends by the
\* attempt limit leaves it as it was.
C17_CounterCountsFailedRows ==
    /\ [](/\ missing_or_corrupted = Cardinality(failed)
          /\ missing_or_corrupted <= Len(results)
          /\ \A r \in failed : r \in 1..Len(results))
    /\ [][out' = <<"limit">> =>
            missing_or_corrupted' = missing_or_corrupted]_vars

C17_Witness ==
    /\ mode = "vision"
    /\ pc = "loop"
    /\ out = <<"limit">>
    /\ max_steps = 1
    /\ failed = {1}
    /\ missing_or_corrupted = 1
    /\ Len(results) = 2

\* C18: a failure of the model during a forward pass, or of the encoding
\* with an error other than missing file / undecodable image, ends the run:
\* no result is recorded for that row, the pass is not tried again, and no
\* step follows (no later row, no later checkpoint).
C18_ProviderFailureAborts ==
    /\ [][pc # "raised"]_vars
    /\ [][(row' = row + 1 /\ image' = "error") =>
            /\ pc' = "raised"
            /\ results' = results
            /\ missing_or_corrupted' = missing_or_corrupted
            /\ classify_calls' = classify_calls]_vars
    /\ [][(pc = "classify" /\ pc' = "raised") =>
            /\ results' = results
            /\ passes' = passes
            /\ row' = row
            /\ writes' = writes]_vars

C18_Witness ==
    /\ pc = "raised"
    /\ error = "ProviderError"
    /\ image = "ok"
    /\ nrows = 3
    /\ row = 2
    /\ Len(results) = 1
    /\ passes = 1
    /\ step = 1

====
